---- MODULE Spec2Model ----
(***************************************************************************)
(* NaiPromptManager: the worker's request handlers (src/worker/index.ts)   *)
(* over the D1 store.  A request is a slot of reqs; every statement the    *)
(* handler awaits is one step of the store, so that requests interleave at *)
(* their awaits.  Spec lets requests overlap; SpecSeq starts a request     *)
(* only when no other one is in flight.                                    *)
(***************************************************************************)
EXTENDS Integers, Sequences, FiniteSets, TLC

\* ---------------------------------------------------------------- bounds
MaxInFlight == 2    \* request slots: requests that may overlap
MaxReqs == 2        \* requests started in one behaviour
MaxChains == 2      \* chain identifiers createChain may allocate
MaxVersions == 3    \* version rows createVersion may allocate identifiers for
MaxClock == 1       \* largest value of the millisecond clock
MaxFaults == 1      \* store failures injected in one behaviour

\* ------------------------------------------------------- values and text
NULL == "NULL"              \* SQL NULL in a text column
Undefined == "undefined"    \* a key absent from a JSON body
NullInt == -1               \* SQL NULL where a number is expected (MAX of no rows)

\* JSON.stringify / JSON.parse: the stored text is not the value.
JSONstringify(v) == <<"json", v>>
\* (the stored text handed on unparsed)
JSONparseForgotten(t) == t
JSONparse(t) == t[2]

\* The `a || b` of a string operand: null, undefined and '' are falsy.
OrText(a, b) == IF a \in {NULL, Undefined, ""} THEN b ELSE a
\* JSON.parse(col || dflt) of a column that holds JSON text or NULL.
ParseOr(col, dflt) == IF col = <<"null">> THEN JSONparse(dflt) ELSE JSONparse(col)
\* `x || 0` of a number operand: null and 0 are falsy.
OrZero(x) == IF x = NullInt \/ x = 0 THEN 0 ELSE x

\* ------------------------------------------------------------ the schema
AllObjects == {"chains", "versions", "artists", "inspirations", "idx_versions_chain_id"}
\* (a schema text that lacks the versions table and its index)
INIT_SQL_NoVersions(objs) == objs \cup {"chains", "artists", "inspirations"}
INIT_SQL(objs) == objs \cup AllObjects   \* CREATE ... IF NOT EXISTS, five times
\* (CREATE TABLE after DROP TABLE: the rows of an existing table are lost)
CreateTable(rows) == {}
\* CREATE TABLE IF NOT EXISTS: an existing table is left as it is, rows included.
CreateTableIfNotExists(rows) == rows

\* createChain's seed version (the values bound at lines 209-215)
DefaultModules(mid) ==
    << [id |-> mid, name |-> "lighting", content |-> "cinematic lighting", isActive |-> TRUE] >>
DefaultParams ==
    [width |-> 832, height |-> 1216, steps |-> 28, scale |-> 5, sampler |-> "k_euler_ancestral"]
SeedBasePrompt == "masterpiece, best quality, {character}"
SeedNegativePrompt == "lowres, bad anatomy"

\* ------------------------------------------------------- error messages
NoSuchTable == "no such table"
ObjectNotFound == "object not found"
FKFailed == "FOREIGN KEY constraint failed"
OtherError == "internal error"
FaultMessages == {NoSuchTable, ObjectNotFound, OtherError}

\* (a catch that provisions and retries on every error)
IsAnyError(msg) == TRUE
\* The chain handlers' test of e.message (lines 157, 201).
IsMissingRelation(msg) == msg = NoSuchTable \/ msg = ObjectNotFound
\* (the artist handlers testing for both messages, as the chain handlers do)
IsNoSuchTableOrNotFound(msg) == msg = NoSuchTable \/ msg = ObjectNotFound
\* The artist and inspiration handlers' test (lines 281, 293, 313, 325).
IsNoSuchTable(msg) == msg = NoSuchTable

\* ------------------------------------------------------------ responses
json(data) == [status |-> 200, body |-> data]
error(msg, status) == [status |-> status, body |-> [error |-> msg]]
NoResp == [status |-> 0, body |-> <<>>]

\* ------------------------------------------- generateImage (naiService.ts)
\* JavaScript values of more than one type: undefined, null, or a value.
Undef == <<"undefined">>
JsNull == <<"null">>
Num(n) == <<"number", n>>
Bool(b) == <<"boolean", b>>
Str(s) == <<"string", s>>
Obj(o) == <<"object", o>>
\* a ?? b
Nullish(a) == a = Undef \/ a = JsNull
Coalesce(a, b) == IF Nullish(a) THEN b ELSE a
\* The truth of a value in `if (v)`, `v && w`, `v || w`, `v ? a : b`.
Truthy(v) ==
    CASE Nullish(v) -> FALSE
      [] v[1] = "number" -> v[2] # 0
      [] v[1] = "boolean" -> v[2]
      [] v[1] = "string" -> v[2] # ""
      [] OTHER -> TRUE

\* Text is a sequence of pieces, + is \o.
NAI_QUALITY_TAGS == <<", very aesthetic, masterpiece, no text">>
\* The canned negative fragments by index; index 4 ('None') has no entry that is used.
NAI_UC_PRESETS == [i \in 0..3 |-> <<"preset", i, ", ">>]
\* NAI_UC_PRESETS[presetId], undefined outside the array
PresetString(presetId) == IF presetId \in DOMAIN NAI_UC_PRESETS THEN NAI_UC_PRESETS[presetId] ELSE <<>>

\* (a seed passed on only when it is truthy: 0 is lost)
SeedIfTruthy(params) == IF Truthy(params.seed) /\ params.seed # Num(-1) THEN params.seed ELSE Undef
\* let seed = undefined; if (params.seed !== undefined && params.seed !== null && params.seed !== -1) seed = params.seed
Seed(params) ==
    IF params.seed # Undef /\ params.seed # JsNull /\ params.seed # Num(-1) THEN params.seed ELSE Undef

\* (the suffix appended unless the toggle is falsy: an omitted toggle counts as off)
QualityOnIfTruthy(params) == Truthy(params.qualityToggle)
\* params.qualityToggle ?? true
QualityOn(params) == Truthy(Coalesce(params.qualityToggle, Bool(TRUE)))
FinalPrompt(prompt, params) == IF QualityOn(params) THEN prompt \o NAI_QUALITY_TAGS ELSE prompt

FinalNegative(negative, params) ==
    LET presetId == Coalesce(params.ucPreset, Num(0)) IN
    IF presetId # Num(4) /\ PresetString(presetId[2]) # <<>>
    THEN PresetString(presetId[2]) \o negative
    ELSE negative

\* params.characters && params.characters.length > 0
Arr(a) == <<"array", a>>
HasCharacters(params) ==
    IF Truthy(params.characters) THEN Bool(Len(params.characters[2]) > 0) ELSE params.characters

\* c.negativePrompt || ""
NegativeText(c) == IF Truthy(c.negativePrompt) THEN c.negativePrompt[2] ELSE ""
\* (negative captions built from the characters in reverse)
Reverse(cs) == [i \in DOMAIN cs |-> cs[Len(cs) + 1 - i]]
\* hasCharacters ? params.characters.map(...) : []
CharCaptions(params) ==
    IF Truthy(HasCharacters(params))
    THEN [i \in DOMAIN params.characters[2] |->
            LET c == params.characters[2][i] IN
            [char_caption |-> c.prompt, centers |-> << [x |-> c.x, y |-> c.y] >>]]
    ELSE <<>>
NegativeCaptionsOf(cs) ==
    [i \in DOMAIN cs |-> [char_caption |-> NegativeText(cs[i]),
                          centers |-> << [x |-> cs[i].x, y |-> cs[i].y] >>]]
CharNegativeCaptionsReversed(params) ==
    IF Truthy(HasCharacters(params)) THEN NegativeCaptionsOf(Reverse(params.characters[2])) ELSE <<>>
CharNegativeCaptions(params) ==
    IF Truthy(HasCharacters(params)) THEN NegativeCaptionsOf(params.characters[2]) ELSE <<>>

\* params.useCoords ?? hasCharacters
UseCoords(params) == Coalesce(params.useCoords, HasCharacters(params))

\* payload.parameters without the seed key (lines 57-107)
Parameters(prompt, negative, params) ==
    [params_version |-> 3, width |-> params.width, height |-> params.height,
     scale |-> params.scale, sampler |-> params.sampler, steps |-> params.steps, n_samples |-> 1,
     skip_cfg_above_sigma |-> IF Truthy(params.variety) THEN Num(58) ELSE JsNull,
     cfg_rescale |-> Coalesce(params.cfgRescale, Num(0)),
     qualityToggle |-> Coalesce(params.qualityToggle, Bool(TRUE)),
     ucPreset |-> Coalesce(params.ucPreset, Num(0)),
     sm |-> FALSE, sm_dyn |-> FALSE, dynamic_thresholding |-> FALSE, controlnet_strength |-> 1,
     legacy |-> FALSE, add_original_image |-> TRUE, uncond_scale |-> 1, noise_schedule |-> "karras",
     negative_prompt |-> FinalNegative(negative, params),
     v4_prompt |-> [caption |-> [base_caption |-> FinalPrompt(prompt, params), char_captions |-> CharCaptions(params)],
                    use_coords |-> UseCoords(params), use_order |-> TRUE],
     v4_negative_prompt |-> [caption |-> [base_caption |-> FinalNegative(negative, params),
                                          char_captions |-> CharNegativeCaptions(params)],
                             legacy_uc |-> FALSE],
     deliberate_euler_ancestral_bug |-> FALSE, prefer_brownian |-> TRUE]
\* const payload = {...}; if (seed !== undefined) payload.parameters.seed = seed
Payload(prompt, negative, params) ==
    LET ps == Parameters(prompt, negative, params) IN
    [input |-> FinalPrompt(prompt, params), model |-> "nai-diffusion-4-5-full", action |-> "generate",
     parameters |-> IF Seed(params) # Undef THEN [seed |-> Seed(params)] @@ ps ELSE ps]

\* The archive: the files of the zip in the order of Object.keys(zip.files).
EndsWithJson(f) == f.name[2] = ".json"
Unparsable == <<"{seed:">>
CanParse(text) == text[1] = "json"
\* json.seed (of null it throws, inside the try)
SeedOf(j) == IF j[1] = "object" /\ "seed" \in DOMAIN j[2] THEN j[2].seed ELSE Undef
\* if (json.seed) actualSeed = json.seed
TakesSeed(v) == Truthy(v)
\* let actualSeed = seed ?? 0; ... (lines 134-149)
ActualSeed(seed, zip) ==
    LET jsonFiles == SelectSeq(zip, EndsWithJson)
        sent == Coalesce(seed, Num(0)) IN
    IF jsonFiles = <<>> THEN sent
    ELSE LET jsonText == jsonFiles[1].text IN
         IF ~CanParse(jsonText) \/ Nullish(JSONparse(jsonText)) THEN sent
         ELSE IF TakesSeed(SeedOf(JSONparse(jsonText))) THEN SeedOf(JSONparse(jsonText)) ELSE sent
\* return { image: `data:image/png;base64,${fileData}`, seed: actualSeed }
Decoded(seed, zip) ==
    [image |-> <<"data:image/png;base64,", zip[1].text>>, seed |-> ActualSeed(seed, zip)]

VARIABLES
    schema,        \* the tables and the index that exist in the store
    chains,        \* rows of chains
    versions,      \* rows of versions
    artists,       \* rows of artists
    inspirations,  \* rows of inspirations
    clock,         \* Date.now()
    reqs,          \* the request in each slot
    last,          \* the request that completed most recently, with its response
    started,       \* requests started so far
    uuids,         \* identifiers handed out: [chain |-> n, version |-> n]
    faults,        \* store failures injected so far
    gen            \* the client's generateImage call

store == <<schema, chains, versions, artists, inspirations>>
vars == <<schema, chains, versions, artists, inspirations, clock, reqs, last, started, uuids, faults, gen>>

Slots == 1..MaxInFlight
ChainIds == 1..MaxChains

\* createVersion's request bodies: every field absent, every field present.
Absent == <<"absent">>
Some(v) == <<"some", v>>
OrJson(a, b) == IF a = Absent THEN b ELSE a[2]   \* `a || b` of an array or object
Bodies ==
    { [basePrompt |-> Undefined, negativePrompt |-> Undefined, modules |-> Absent, params |-> Absent],
      [basePrompt |-> "p", negativePrompt |-> "n", modules |-> Some(DefaultModules(0)),
       params |-> Some(DefaultParams)] }
\* updateChainMeta's request bodies: each of the three keys absent or present.
Updates ==
    [name : {Undefined, "X"}, description : {Undefined, "Y"}, previewImage : {Undefined, "Z"}]

\* ------------------------------------------------------------- requests
NoArgs == [id |-> 0]
\* What a request records on entry of the store it finds and of the request
\* answered just before it (used only to state properties).
NoPrev == [op |-> "none", status |-> 0, id |-> 0, schema |-> {}, chains |-> {}]
NoPre == [schema |-> {}, chains |-> {}, prev |-> NoPrev]
Idle ==
    [op |-> "none", pc |-> "idle", pre |-> NoPre,
     args |-> NoArgs, now |-> 0, since |-> 0, nextVer |-> 0, newId |-> 0,
     trace |-> <<>>, rows |-> <<>>, resp |-> NoResp]

\* The id a createChain answered with.
Returned(q) == IF q.op = "createChain" /\ q.resp.status = 200 THEN q.resp.body.id ELSE 0

\* A request as the handler finds it on entry.
New(op, args) ==
    [Idle EXCEPT !.op = op, !.pc = "primary",
                 !.pre = [schema |-> schema, chains |-> {c.id : c \in chains},
                          prev |-> [op |-> last.op, status |-> last.resp.status,
                                    id |-> Returned(last), schema |-> last.pre.schema,
                                    chains |-> last.pre.chains]],
                 !.args = args, !.now = clock, !.since = clock]

\* Slots are interchangeable: a request takes the first idle one.
Free(r) ==
    /\ reqs[r].pc = "idle"
    /\ \A s \in Slots : s < r => reqs[s].pc # "idle"
    /\ started < MaxReqs
Quiet == \A s \in Slots : reqs[s].pc = "idle"

Logged(q, label, out) == [q EXCEPT !.trace = Append(@, <<label, out>>), !.since = clock]

\* What is kept of a request once it has answered: its inputs, the statements
\* it executed and the response.
Done(q, resp) ==
    [Idle EXCEPT !.op = q.op, !.pc = "done", !.pre = q.pre, !.args = q.args,
                 !.trace = q.trace, !.resp = resp]
\* The outer catch (lines 345-347).
Thrown(q, msg) == Done(q, error(msg, 500))

Count(tr, label) == Cardinality({i \in DOMAIN tr : tr[i][1] = label})
nPrimary(q) == Count(q.trace, "primary")
nEnsure(q) == Count(q.trace, "ensure")
\* The outcomes of the executions of the primary statement, in order.
PrimaryOutcomes(q) == SelectSeq(q.trace, LAMBDA e : e[1] = "primary")

\* ------------------------------------------------------------ the store
\* What executing a statement over `objs` may answer: the store's own error
\* when a table is absent, else success or an injected failure.
StmtOutcomes(objs) ==
    IF ~(objs \subseteq schema) THEN {NoSuchTable}
    ELSE {"ok"} \cup (IF faults < MaxFaults THEN FaultMessages ELSE {})
Injected(objs, out) == out # "ok" /\ objs \subseteq schema
Charge(objs, out) == faults' = faults + (IF Injected(objs, out) THEN 1 ELSE 0)

\* ORDER BY key DESC: all listings of the rows S, each once, by descending
\* key (rows of equal key in any order).
Listings(S, key) ==
    {s \in [1..Cardinality(S) -> S] :
        /\ \A i, j \in DOMAIN s : i # j => s[i] # s[j]
        /\ \A i, j \in DOMAIN s : i < j => key[s[i]] >= key[s[j]]}

\* SELECT * FROM chains ORDER BY updated_at DESC
SelectChains == Listings(chains, [c \in chains |-> c.updated_at])

\* INSERT INTO chains (id, name, description, tags, created_at, updated_at)
ChainRow(id, name, description, now) ==
    [id |-> id, name |-> name, description |-> description, tags |-> JSONstringify(<<>>),
     preview_image |-> NULL, created_at |-> now, updated_at |-> now]

\* INSERT INTO versions (id, chain_id, version, base_prompt, negative_prompt, modules, params, created_at)
VersionRow(id, chainId, ver, base, neg, modules, params, now) ==
    [id |-> id, chain_id |-> chainId, version |-> ver, base_prompt |-> base,
     negative_prompt |-> neg, modules |-> modules, params |-> params, created_at |-> now]

\* (a store that does not enforce the foreign key)
FKNotEnforced(chainId) == TRUE
\* FOREIGN KEY(chain_id) REFERENCES chains(id): the insert's check.
FKOk(chainId) == \E c \in chains : c.id = chainId
\* (a delete that takes the versions of every chain with it)
CascadeEverything(id) == {}
\* ... ON DELETE CASCADE: the versions a DELETE of chain `id` leaves.
Cascade(id) == {v \in versions : v.chain_id # id}

\* SELECT MAX(version) as max_v FROM versions WHERE chain_id = ?
MaxVersion(chainId) ==
    LET vs == {v.version : v \in {w \in versions : w.chain_id = chainId}}
    IN  IF vs = {} THEN NullInt ELSE CHOOSE m \in vs : \A n \in vs : n <= m
\* (a numbering that skips: the successor taken twice)
NextVerSkips(max_v) == OrZero(max_v) + 2
\* const nextVer = ((maxVerResult?.max_v) || 0) + 1
NextVer(max_v) == OrZero(max_v) + 1

\* (a join that leaves out the MAX(version) condition: every row of versions)
LatestRowsUngrouped == versions
\* The rows of the join against the per-chain MAX(version) subquery.
LatestRows == {v \in versions : v.version = MaxVersion(v.chain_id)}
\* versionMap: one parsed row per chain_id of the result (a later row replaces an earlier one).
ParsedVersion(v) ==
    [v EXCEPT !.modules = ParseOr(v.modules, JSONstringify(<<>>)),
              !.params = ParseOr(v.params, JSONstringify(<<>>))]
VersionMaps ==
    LET ids == {v.chain_id : v \in LatestRows}
    IN  {m \in [ids -> LatestRows] : \A i \in ids : m[i].chain_id = i}
NullRow == [null |-> TRUE]
\* chains.map(c => ({...c, tags: JSON.parse(c.tags || '[]'), latestVersion: versionMap.get(c.id) || null}))
ChainView(c, vm) ==
    [id |-> c.id, name |-> c.name, description |-> c.description,
     tags |-> ParseOr(c.tags, JSONstringify(<<>>)), preview_image |-> c.preview_image,
     created_at |-> c.created_at, updated_at |-> c.updated_at,
     latestVersion |-> IF c.id \in DOMAIN vm THEN ParsedVersion(vm[c.id]) ELSE NullRow]

\* (an UPDATE issued whatever the body holds)
HasFieldsAlways(updates) == TRUE
\* The SET list updateChainMeta builds (lines 226-232), applied to a row.
HasFields(updates) ==
    updates.name # Undefined \/ updates.description # Undefined \/ updates.previewImage # Undefined
\* (a SET list that names the three columns whether or not the body has them)
ApplySetAll(c, updates, now) ==
    [c EXCEPT !.name = updates.name, !.description = updates.description,
              !.preview_image = updates.previewImage, !.updated_at = now]
ApplySet(c, updates, now) ==
    [c EXCEPT !.name = IF updates.name # Undefined THEN updates.name ELSE @,
              !.description = IF updates.description # Undefined THEN updates.description ELSE @,
              !.preview_image = IF updates.previewImage # Undefined THEN updates.previewImage ELSE @,
              !.updated_at = now]
\* UPDATE chains SET ... WHERE id = ?
UpdateChains(id, updates, now) ==
    {IF c.id = id THEN ApplySet(c, updates, now) ELSE c : c \in chains}
\* UPDATE chains SET updated_at = ? WHERE id = ?
BumpChains(id, now) == {IF c.id = id THEN [c EXCEPT !.updated_at = now] ELSE c : c \in chains}

\* --------------------------------------------------------------- steps
\* A request that has answered leaves its slot.
Put(r, q) ==
    IF q.pc = "done"
    THEN reqs' = [reqs EXCEPT ![r] = Idle] /\ last' = q
    ELSE reqs' = [reqs EXCEPT ![r] = q] /\ UNCHANGED last
At(r, op, pc) == reqs[r].op = op /\ reqs[r].pc = pc

\* env.MASTER_KEY, and what X-Master-Key may hold: the key, another text, or
\* nothing (headers.get answers null).
MASTER_KEY == "master"
AuthHeaders == {MASTER_KEY, "wrong", NULL}
\* The routes behind the check: every PUT and DELETE, POST on artists and inspirations.
AdminOps ==
    {"updateChainMeta", "deleteChain", "upsertArtist", "deleteArtist",
     "upsertInspiration", "deleteInspiration"}
\* (a check that covers PUT and DELETE only)
AdminOnlyPutDelete(op) ==
    op \in {"updateChainMeta", "deleteChain", "deleteArtist", "deleteInspiration"}
AdminOnly(op) == op \in AdminOps
\* if (authHeader !== env.MASTER_KEY) return error('Unauthorized', 401)
Denied(op, key) == AdminOnly(op) /\ key # MASTER_KEY

\* The admin routes' check of X-Master-Key (lines 100-105), before anything else.
Unauthorized(r) ==
    /\ Free(r)
    /\ \E op \in AdminOps, key \in AuthHeaders :
          /\ Denied(op, key)
          /\ Put(r, Done([New(op, NoArgs) EXCEPT !.args = [id |-> 0, key |-> key]],
                         error("Unauthorized", 401)))
    /\ started' = started + 1
    /\ UNCHANGED <<store, clock, uuids, faults, gen>>

\* db.exec(INIT_SQL) in a handler's catch; what follows depends on the handler.
EnsureSchema(r) ==
    /\ reqs[r].pc = "ensure"
    /\ \E out \in {"ok"} \cup (IF faults < MaxFaults THEN FaultMessages ELSE {}) :
          LET q == Logged(reqs[r], "ensure", out) IN
          /\ faults' = faults + (IF out = "ok" THEN 0 ELSE 1)
          /\ IF out # "ok"
             THEN Put(r, Thrown(q, out)) /\ UNCHANGED store
             ELSE /\ schema' = INIT_SQL(schema)
                  /\ chains' = CreateTableIfNotExists(chains)
                  /\ versions' = CreateTableIfNotExists(versions)
                  /\ artists' = CreateTableIfNotExists(artists)
                  /\ inspirations' = CreateTableIfNotExists(inspirations)
                  /\ IF q.op \in {"listArtists", "listInspirations"}
                     THEN Put(r, Done(q, json(<<>>)))
                     ELSE Put(r, [q EXCEPT !.pc = "primary"])
    /\ UNCHANGED <<clock, started, uuids, gen>>

\* GET /api/chains
BeginListChains(r) ==
    /\ Free(r)
    /\ Put(r, New("listChains", NoArgs))
    /\ started' = started + 1
    /\ UNCHANGED <<store, clock, uuids, faults, gen>>

ListChainsSelect(r) ==
    /\ At(r, "listChains", "primary")
    /\ \E out \in StmtOutcomes({"chains"}) :
          LET q == Logged(reqs[r], "primary", out) IN
          /\ Charge({"chains"}, out)
          /\ IF out = "ok"
             THEN \E rows \in SelectChains : Put(r, [q EXCEPT !.pc = "versions", !.rows = rows])
             ELSE IF nEnsure(q) = 0 /\ IsMissingRelation(out)
                  THEN Put(r, [q EXCEPT !.pc = "ensure"])
                  ELSE Put(r, Thrown(q, out))
    /\ UNCHANGED <<store, clock, started, uuids, gen>>

ListChainsVersions(r) ==
    /\ At(r, "listChains", "versions")
    /\ \E out \in StmtOutcomes({"versions"}) :
          LET q == Logged(reqs[r], "versions", out) IN
          /\ Charge({"versions"}, out)
          /\ IF out = "ok"
             THEN \E vm \in VersionMaps :
                    Put(r, Done(q, json([i \in DOMAIN q.rows |-> ChainView(q.rows[i], vm)])))
             ELSE Put(r, Thrown(q, out))
    /\ UNCHANGED <<store, clock, started, uuids, gen>>

\* POST /api/chains
BeginCreateChain(r) ==
    /\ Free(r)
    /\ uuids.chain < MaxChains
    /\ uuids.version < MaxVersions
    /\ Put(r, [New("createChain", [id |-> uuids.chain + 1, name |-> "Foo", description |-> "bar"])
                 EXCEPT !.newId = uuids.version + 1])
    /\ uuids' = [chain |-> uuids.chain + 1, version |-> uuids.version + 1]
    /\ started' = started + 1
    /\ UNCHANGED <<store, clock, faults, gen>>

CreateChainInsert(r) ==
    /\ At(r, "createChain", "primary")
    /\ \E out \in StmtOutcomes({"chains"}) :
          LET q == Logged(reqs[r], "primary", out) IN
          /\ Charge({"chains"}, out)
          /\ IF out = "ok"
             THEN /\ chains' = chains \cup {ChainRow(q.args.id, q.args.name, q.args.description, q.now)}
                  /\ Put(r, [q EXCEPT !.pc = "seed"])
             ELSE /\ UNCHANGED chains
                  /\ IF nEnsure(q) = 0 /\ IsMissingRelation(out)
                     THEN Put(r, [q EXCEPT !.pc = "ensure"])
                     ELSE Put(r, Thrown(q, out))
    /\ UNCHANGED <<schema, versions, artists, inspirations, clock, started, uuids, gen>>

SeedRow(q) ==
    VersionRow(q.newId, q.args.id, 1, SeedBasePrompt, SeedNegativePrompt,
               JSONstringify(DefaultModules(q.args.id)), JSONstringify(DefaultParams), q.now)

\* What the INSERT INTO versions of a row for chain `chainId` may answer.
InsertVersionOutcomes(chainId) ==
    IF {"versions", "chains"} \subseteq schema /\ ~FKOk(chainId) THEN {FKFailed}
    ELSE StmtOutcomes({"versions"})

CreateChainSeed(r) ==
    /\ At(r, "createChain", "seed")
    /\ \E out \in InsertVersionOutcomes(reqs[r].args.id) :
          LET q == Logged(reqs[r], "seed", out) IN
          /\ Charge({"versions"}, IF out = FKFailed THEN "ok" ELSE out)
          /\ IF out = "ok"
             THEN versions' = versions \cup {SeedRow(q)} /\ Put(r, Done(q, json([id |-> q.args.id])))
             ELSE UNCHANGED versions /\ Put(r, Thrown(q, out))
    /\ UNCHANGED <<schema, chains, artists, inspirations, clock, started, uuids, gen>>

\* PUT /api/chains/{id}
BeginUpdateChainMeta(r) ==
    /\ Free(r)
    /\ \E id \in ChainIds, updates \in Updates, key \in AuthHeaders :
          LET q == New("updateChainMeta", [id |-> id, key |-> key, updates |-> updates]) IN
          /\ ~Denied("updateChainMeta", key)
          /\ IF HasFields(updates)
             THEN Put(r, q)
             ELSE Put(r, Done(q, json([success |-> TRUE])))
    /\ started' = started + 1
    /\ UNCHANGED <<store, clock, uuids, faults, gen>>

UpdateChainMetaRun(r) ==
    /\ At(r, "updateChainMeta", "primary")
    /\ \E out \in StmtOutcomes({"chains"}) :
          LET q == Logged(reqs[r], "primary", out) IN
          /\ Charge({"chains"}, out)
          /\ IF out = "ok"
             THEN /\ chains' = UpdateChains(q.args.id, q.args.updates, q.now)
                  /\ Put(r, Done(q, json([success |-> TRUE])))
             ELSE UNCHANGED chains /\ Put(r, Thrown(q, out))
    /\ UNCHANGED <<schema, versions, artists, inspirations, clock, started, uuids, gen>>

\* DELETE /api/chains/{id}
BeginDeleteChain(r) ==
    /\ Free(r)
    /\ \E id \in ChainIds, key \in AuthHeaders :
          ~Denied("deleteChain", key) /\ Put(r, New("deleteChain", [id |-> id, key |-> key]))
    /\ started' = started + 1
    /\ UNCHANGED <<store, clock, uuids, faults, gen>>

DeleteChainRun(r) ==
    /\ At(r, "deleteChain", "primary")
    /\ \E out \in StmtOutcomes({"chains"}) :
          LET q == Logged(reqs[r], "primary", out) IN
          /\ Charge({"chains"}, out)
          /\ IF out = "ok"
             THEN /\ chains' = {c \in chains : c.id # q.args.id}
                  /\ versions' = Cascade(q.args.id)
                  /\ Put(r, Done(q, json([success |-> TRUE])))
             ELSE UNCHANGED <<chains, versions>> /\ Put(r, Thrown(q, out))
    /\ UNCHANGED <<schema, artists, inspirations, clock, started, uuids, gen>>

\* POST /api/chains/{id}/versions
\* (newId is drawn on entry: a random identifier does not depend on when it is drawn)
BeginCreateVersion(r) ==
    /\ Free(r)
    /\ uuids.version < MaxVersions
    /\ \E chainId \in ChainIds, body \in Bodies :
          Put(r, [New("createVersion", [id |-> chainId, body |-> body])
                    EXCEPT !.newId = uuids.version + 1])
    /\ uuids' = [uuids EXCEPT !.version = @ + 1]
    /\ started' = started + 1
    /\ UNCHANGED <<store, clock, faults, gen>>

CreateVersionReadMax(r) ==
    /\ At(r, "createVersion", "primary")
    /\ \E out \in StmtOutcomes({"versions"}) :
          LET q == Logged(reqs[r], "primary", out) IN
          /\ Charge({"versions"}, out)
          /\ IF out = "ok"
             THEN Put(r, [q EXCEPT !.pc = "insert", !.nextVer = NextVer(MaxVersion(q.args.id))])
             ELSE Put(r, Thrown(q, out))
    /\ UNCHANGED <<store, clock, started, uuids, gen>>

NewVersionRow(q, now) ==
    VersionRow(q.newId, q.args.id, q.nextVer,
               OrText(q.args.body.basePrompt, ""), OrText(q.args.body.negativePrompt, ""),
               JSONstringify(OrJson(q.args.body.modules, <<>>)),
               JSONstringify(OrJson(q.args.body.params, <<>>)), now)

\* Date.now() is read when the statement is built: at any moment since the
\* previous await completed.
CreateVersionInsert(r) ==
    /\ At(r, "createVersion", "insert")
    /\ \E out \in InsertVersionOutcomes(reqs[r].args.id), now \in reqs[r].since..clock :
          LET q == Logged(reqs[r], "insert", out) IN
          /\ Charge({"versions"}, IF out = FKFailed THEN "ok" ELSE out)
          /\ IF out = "ok"
             THEN versions' = versions \cup {NewVersionRow(q, now)} /\ Put(r, [q EXCEPT !.pc = "bump"])
             ELSE UNCHANGED versions /\ Put(r, Thrown(q, out))
    /\ UNCHANGED <<schema, chains, artists, inspirations, clock, started, uuids, gen>>

CreateVersionBump(r) ==
    /\ At(r, "createVersion", "bump")
    /\ \E out \in StmtOutcomes({"chains"}), now \in reqs[r].since..clock :
          LET q == Logged(reqs[r], "bump", out) IN
          /\ Charge({"chains"}, out)
          /\ IF out = "ok"
             THEN /\ chains' = BumpChains(q.args.id, now)
                  /\ Put(r, Done(q, json([id |-> q.newId, version |-> q.nextVer])))
             ELSE UNCHANGED chains /\ Put(r, Thrown(q, out))
    /\ UNCHANGED <<schema, versions, artists, inspirations, clock, started, uuids, gen>>

\* ------------------------------------------------ artists, inspirations
ListOps == {"listArtists", "listInspirations"}
UpsertOps == {"upsertArtist", "upsertInspiration"}
DeleteOps == {"deleteArtist", "deleteInspiration"}
TableOf(op) == IF op \in {"listArtists", "upsertArtist", "deleteArtist"} THEN "artists" ELSE "inspirations"
RowsOf(t) == IF t = "artists" THEN artists ELSE inspirations

\* The one body the model posts to each of the two routes.
ArtistRow == [id |-> 1, name |-> "a", image_url |-> "u"]
InspirationRow == [id |-> 1, title |-> "t", image_url |-> "u", prompt |-> "p", created_at |-> 0]
RowOf(t) == IF t = "artists" THEN ArtistRow ELSE InspirationRow

\* SELECT * FROM artists ORDER BY name ASC / FROM inspirations ORDER BY created_at DESC
\* (the model posts one artist name, so every listing of artists is by name)
SelectRefs(t) ==
    IF t = "artists" THEN Listings(artists, [a \in artists |-> 0])
    ELSE Listings(inspirations, [x \in inspirations |-> x.created_at])
\* INSERT OR REPLACE INTO ...
Upsert(rows, row) == {x \in rows : x.id # row.id} \cup {row}

\* GET /api/artists, GET /api/inspirations
BeginListRefs(r) ==
    /\ Free(r)
    /\ \E op \in ListOps : Put(r, New(op, NoArgs))
    /\ started' = started + 1
    /\ UNCHANGED <<store, clock, uuids, faults, gen>>

ListRefsSelect(r) ==
    /\ reqs[r].op \in ListOps /\ reqs[r].pc = "primary"
    /\ LET t == TableOf(reqs[r].op) IN
       \E out \in StmtOutcomes({t}) :
          LET q == Logged(reqs[r], "primary", out) IN
          /\ Charge({t}, out)
          /\ IF out = "ok"
             THEN \E rows \in SelectRefs(t) : Put(r, Done(q, json(rows)))
             ELSE IF IsNoSuchTable(out)
                  THEN Put(r, [q EXCEPT !.pc = "ensure"])
                  ELSE Put(r, Thrown(q, out))
    /\ UNCHANGED <<store, clock, started, uuids, gen>>

\* POST /api/artists, POST /api/inspirations
BeginUpsertRef(r) ==
    /\ Free(r)
    /\ \E op \in UpsertOps, key \in AuthHeaders :
          ~Denied(op, key) /\ Put(r, New(op, [id |-> 1, key |-> key]))
    /\ started' = started + 1
    /\ UNCHANGED <<store, clock, uuids, faults, gen>>

UpsertRefRun(r) ==
    /\ reqs[r].op \in UpsertOps /\ reqs[r].pc = "primary"
    /\ LET t == TableOf(reqs[r].op) IN
       \E out \in StmtOutcomes({t}) :
          LET q == Logged(reqs[r], "primary", out) IN
          /\ Charge({t}, out)
          /\ IF out = "ok"
             THEN /\ artists' = IF t = "artists" THEN Upsert(artists, ArtistRow) ELSE artists
                  /\ inspirations' = IF t = "artists" THEN inspirations ELSE Upsert(inspirations, InspirationRow)
                  /\ Put(r, Done(q, json([success |-> TRUE])))
             ELSE /\ UNCHANGED <<artists, inspirations>>
                  /\ IF nEnsure(q) = 0 /\ IsNoSuchTable(out)
                     THEN Put(r, [q EXCEPT !.pc = "ensure"])
                     ELSE Put(r, Thrown(q, out))
    /\ UNCHANGED <<schema, chains, versions, clock, started, uuids, gen>>

\* DELETE /api/artists/{id}, DELETE /api/inspirations/{id}
BeginDeleteRef(r) ==
    /\ Free(r)
    /\ \E op \in DeleteOps, key \in AuthHeaders :
          ~Denied(op, key) /\ Put(r, New(op, [id |-> 1, key |-> key]))
    /\ started' = started + 1
    /\ UNCHANGED <<store, clock, uuids, faults, gen>>

DeleteRefRun(r) ==
    /\ reqs[r].op \in DeleteOps /\ reqs[r].pc = "primary"
    /\ LET t == TableOf(reqs[r].op) IN
       \E out \in StmtOutcomes({t}) :
          LET q == Logged(reqs[r], "primary", out) IN
          /\ Charge({t}, out)
          /\ IF out = "ok"
             THEN /\ artists' = IF t = "artists" THEN {x \in artists : x.id # q.args.id} ELSE artists
                  /\ inspirations' = IF t = "artists" THEN inspirations
                                       ELSE {x \in inspirations : x.id # q.args.id}
                  /\ Put(r, Done(q, json([success |-> TRUE])))
             ELSE UNCHANGED <<artists, inspirations>> /\ Put(r, Thrown(q, out))
    /\ UNCHANGED <<schema, chains, versions, clock, started, uuids, gen>>

\* ------------------------------------------------------- generateImage
MaxChars == 2   \* characters in one request

\* The inputs of a call.
Prompts == {<<>>, <<"1girl">>, <<"1girl">> \o NAI_QUALITY_TAGS}
Characters ==
    { [prompt |-> "girl", negativePrompt |-> Undef, x |-> 1, y |-> 2],
      [prompt |-> "boy", negativePrompt |-> Str("hat"), x |-> 3, y |-> 4] }
CharacterLists ==
    {Undef} \cup {Arr(cs) : cs \in UNION {[1..n -> Characters] : n \in 0..MaxChars}}
ParamSets ==
    [seed : {Undef, JsNull, Num(-1), Num(0), Num(7)},
     qualityToggle : {Undef, Bool(TRUE), Bool(FALSE)},
     ucPreset : {Undef, Num(4)},
     characters : CharacterLists,
     useCoords : {Undef, JsNull, Bool(TRUE), Bool(FALSE)},
     width : {832}, height : {1216}, scale : {5}, sampler : {"k_euler_ancestral"}, steps : {28},
     variety : {Undef}, cfgRescale : {Undef}]

\* What the provider may answer with.
ImageFile == [name |-> <<"image_0", ".png">>, text |-> <<"png">>]
MetaFile(text) == [name |-> <<"image_0", ".json">>, text |-> text]
MetaTexts ==
    {Unparsable, JSONstringify(JsNull), JSONstringify(Obj([model |-> Str("nai")])),
     JSONstringify(Obj([seed |-> Num(42)])), JSONstringify(Obj([seed |-> Num(0)])),
     JSONstringify(Obj([seed |-> Str("abc")]))}
Archives ==
    {<<>>, <<ImageFile>>} \cup {<<ImageFile, MetaFile(t)>> : t \in MetaTexts}
           \cup {<<MetaFile(JSONstringify(Obj([seed |-> Num(42)]))), ImageFile>>}

\* new Error(message)
Error(message) == [message |-> message]
\* What the provider answered the worker with (status 0: nothing yet, or
\* the fetch rejected).
NoAnswer == [status |-> 0, text |-> <<>>]
ProviderFailures == [status : {400, 500}, text : {<<"bad request">>}]
\* (the provider's failure answered as a plain 500)
ProviderErrorAs500(errText, status) == error(<<"NAI API Error: ">> \o errText, 500)
\* return error(`NAI API Error: ${errText}`, naiRes.status)
ProviderError(errText, status) == error(<<"NAI API Error: ">> \o errText, status)

NoCall ==
    [pc |-> "idle", prompt |-> <<>>, params |-> <<>>, payload |-> <<>>, body |-> <<"none">>,
     calls |-> 0, provider |-> NoAnswer, resp |-> NoResp, zip |-> <<>>,
     result |-> <<>>, thrown |-> Error("")]

\* generateImage up to the await of api.postBinary: the payload is compiled.
GenerateImage ==
    /\ gen.pc = "idle"
    /\ \E prompt \in Prompts, params \in ParamSets :
          gen' = [NoCall EXCEPT !.pc = "posted", !.prompt = prompt, !.params = params,
                                !.payload = Payload(prompt, <<"bad hands">>, params),
                                !.body = JSONstringify(Payload(prompt, <<"bad hands">>, params))]
    /\ UNCHANGED <<store, clock, reqs, last, started, uuids, faults>>

\* A POST /api/generate from another client, with a body that is not JSON.
PostRaw ==
    /\ gen.pc = "idle"
    /\ gen' = [NoCall EXCEPT !.pc = "posted", !.body = Unparsable]
    /\ UNCHANGED <<store, clock, reqs, last, started, uuids, faults>>

\* POST /api/generate: the worker hands the body to the provider and the
\* provider's answer back (lines 115-135); postBinary rejects on a status that
\* is not ok.
ProxyGenerate ==
    /\ gen.pc = "posted"
    /\ \/ \* request.json() throws: the outer catch answers
          /\ ~CanParse(gen.body)
          /\ gen' = [gen EXCEPT !.pc = "failed", !.resp = error(<<"Unexpected token">>, 500),
                                !.thrown = error(<<"Unexpected token">>, 500)]
       \/ \* the provider answers ok: its blob is handed back
          /\ CanParse(gen.body)
          /\ \E zip \in Archives :
                gen' = [gen EXCEPT !.pc = "received", !.calls = @ + 1,
                                   !.provider = [status |-> 200, text |-> <<>>],
                                   !.resp = [status |-> 200, body |-> zip], !.zip = zip]
       \/ \* the provider answers with a status that is not ok
          /\ CanParse(gen.body)
          /\ \E a \in ProviderFailures :
                gen' = [gen EXCEPT !.pc = "failed", !.calls = @ + 1, !.provider = a,
                                   !.resp = ProviderError(a.text, a.status),
                                   !.thrown = ProviderError(a.text, a.status)]
       \/ \* the fetch of the provider rejects: the outer catch answers
          /\ CanParse(gen.body)
          /\ gen' = [gen EXCEPT !.pc = "failed", !.calls = @ + 1,
                                !.resp = error(<<"fetch failed">>, 500),
                                !.thrown = error(<<"fetch failed">>, 500)]
    /\ UNCHANGED <<store, clock, reqs, last, started, uuids, faults>>

\* generateImage after the await: the archive is read (lines 120-151).
DecodeArchive ==
    /\ gen.pc = "received"
    /\ IF gen.zip = <<>>
       THEN gen' = [gen EXCEPT !.pc = "failed", !.thrown = Error("No image found in response")]
       ELSE gen' = [gen EXCEPT !.pc = "done", !.result = Decoded(Seed(gen.params), gen.zip)]
    /\ UNCHANGED <<store, clock, reqs, last, started, uuids, faults>>

\* --------------------------------------------------------- the system
\* The millisecond clock advances on its own.
Tick ==
    /\ clock < MaxClock
    /\ clock' = clock + 1
    /\ UNCHANGED <<store, reqs, last, started, uuids, faults, gen>>

\* The store the first request of a behaviour finds: nothing provisioned, or
\* provisioned and holding the chains 1..n as n createChain requests at time 0
\* leave them, each with its seed version.
Init ==
    /\ \E n \in 0..MaxChains :
          /\ schema \in IF n = 0 THEN {{}, AllObjects} ELSE {AllObjects}
          /\ chains = {ChainRow(id, "Foo", "bar", 0) : id \in 1..n}
          /\ versions = {SeedRow([newId |-> id, args |-> [id |-> id], now |-> 0]) : id \in 1..n}
          /\ uuids = [chain |-> n, version |-> n]
    /\ artists = {} /\ inspirations = {}
    /\ clock = 0
    /\ reqs = [r \in Slots |-> Idle]
    /\ last = Idle
    /\ started = 0
    /\ faults = 0
    /\ gen = NoCall

\* The chain and version routes.
BeginChains(r) ==
    \/ BeginListChains(r)
    \/ BeginCreateChain(r)
    \/ BeginUpdateChainMeta(r)
    \/ BeginDeleteChain(r)
    \/ BeginCreateVersion(r)

StepChains(r) ==
    \/ EnsureSchema(r)
    \/ ListChainsSelect(r)
    \/ ListChainsVersions(r)
    \/ CreateChainInsert(r)
    \/ CreateChainSeed(r)
    \/ UpdateChainMetaRun(r)
    \/ DeleteChainRun(r)
    \/ CreateVersionReadMax(r)
    \/ CreateVersionInsert(r)
    \/ CreateVersionBump(r)

\* The admin check and the artist and inspiration routes.
BeginRefs(r) ==
    \/ Unauthorized(r)
    \/ BeginListRefs(r)
    \/ BeginUpsertRef(r)
    \/ BeginDeleteRef(r)

StepRefs(r) ==
    \/ ListRefsSelect(r)
    \/ UpsertRefRun(r)
    \/ DeleteRefRun(r)

\* Requests overlap: any handler may run between two awaits of another.
Next == Tick \/ \E r \in Slots : BeginChains(r) \/ BeginRefs(r) \/ StepChains(r) \/ StepRefs(r)
Spec == Init /\ [][Next]_vars

\* Requests on every route, strictly one after another: one starts only when
\* none is in flight.
NextSeq ==
    Tick \/ \E r \in Slots : (Quiet /\ (BeginChains(r) \/ BeginRefs(r))) \/ StepChains(r) \/ StepRefs(r)
SpecSeq == Init /\ [][NextSeq]_vars

\* One generateImage call: it shares nothing with the store's routes.
NextNai == GenerateImage \/ PostRaw \/ ProxyGenerate \/ DecodeArchive
SpecNai == Init /\ [][NextNai]_vars

\* ================================================================ claims
VersionsOf(id) == {v \in versions : v.chain_id = id}
Answered(op) == last.op = op /\ last.pc = "done" /\ last.resp.status = 200

\* C1: with requests issued strictly one after another, the version numbers
\* stored for every chain are exactly 1..k, k the number of its version rows
\* (no duplicate, no gap), and a createVersion that answered returned the id
\* and the version number of a row it stored for its chain.
C1_SequentialVersions ==
    /\ \A id \in ChainIds :
          {v.version : v \in VersionsOf(id)} = 1..Cardinality(VersionsOf(id))
    /\ Answered("createVersion") =>
          \E v \in VersionsOf(last.args.id) :
             v.id = last.resp.body.id /\ v.version = last.resp.body.version
\* Two createVersion requests after the seed: the chain holds 1, 2, 3.
C1_Witness ==
    /\ Answered("createVersion")
    /\ last.resp.body.version = 3
    /\ Cardinality(VersionsOf(last.args.id)) = 3

\* C2: in every reachable state, overlapping requests included, no two stored
\* versions share (chain_id, version).
C2_UniqueChainVersion ==
    \A v, w \in versions : (v.chain_id = w.chain_id /\ v.version = w.version) => v = w

\* C3: createChain is atomic: in every reachable state (between its two
\* inserts, and after it failed) every chain has exactly one version 1.
C3_SeedAtomic ==
    \A c \in chains : Cardinality({v \in VersionsOf(c.id) : v.version = 1}) = 1

\* C4: a listChains that directly follows a successful createChain on a store
\* with no other chain answers with exactly that chain: the name given, the id
\* createChain returned, empty tags, latestVersion.version = 1 with the
\* default modules and params.
AfterFirstCreate ==
    /\ Answered("listChains")
    /\ last.pre.prev.op = "createChain"
    /\ last.pre.prev.status = 200
    /\ last.pre.prev.chains = {}
IsDefaultModules(ms) ==
    /\ Len(ms) = 1
    /\ ms[1].name = "lighting" /\ ms[1].content = "cinematic lighting" /\ ms[1].isActive = TRUE
C4_CreateThenList ==
    AfterFirstCreate =>
        LET b == last.resp.body IN
        /\ Len(b) = 1
        /\ b[1].name = "Foo"
        /\ b[1].id = last.pre.prev.id
        /\ b[1].tags = <<>>
        /\ "version" \in DOMAIN b[1].latestVersion
        /\ b[1].latestVersion.version = 1
        /\ IsDefaultModules(b[1].latestVersion.modules)
        /\ b[1].latestVersion.params = DefaultParams
\* The createChain found the tables absent and provisioned them.
C4_Witness == AfterFirstCreate /\ last.pre.prev.schema = {}

\* C5 (as stated): every store operation whose primary statement first fails
\* with "no such table" or "object not found" calls ensureSchema once and
\* executes the primary statement once more.
FirstFailure(q) ==
    LET P == PrimaryOutcomes(q) IN IF Len(P) >= 1 /\ P[1][2] # "ok" THEN P[1][2] ELSE "none"
EnsureOk(q) == \E i \in DOMAIN q.trace : q.trace[i] = <<"ensure", "ok">>
C6_AtMostOneRetry ==
    /\ \A q \in {reqs[r] : r \in Slots} \cup {last} : nEnsure(q) <= 1 /\ nPrimary(q) <= 2
    /\ \A r \in Slots :
          LET P == PrimaryOutcomes(reqs[r]) IN
          /\ \A i \in DOMAIN P : P[i][2] \in {"ok", NoSuchTable, ObjectNotFound}
          /\ Len(P) = 2 => P[2][2] = "ok"
    /\ last.pc = "done" =>
          LET P == PrimaryOutcomes(last) IN
          /\ (Len(P) >= 1 /\ P[1][2] \notin {"ok", NoSuchTable, ObjectNotFound}) =>
                (nEnsure(last) = 0 /\ nPrimary(last) = 1 /\ last.resp = error(P[1][2], 500))
          /\ (Len(P) = 2 /\ P[2][2] # "ok") =>
                (nEnsure(last) = 1 /\ last.resp = error(P[2][2], 500))
\* A second missing-relation failure, after provisioning, was answered.
C6_Witness ==
    /\ last.pc = "done"
    /\ Len(PrimaryOutcomes(last)) = 2
    /\ PrimaryOutcomes(last)[2][2] \in {NoSuchTable, ObjectNotFound}

\* C7: a list request that finds no table at all, and meets no other store
\* failure, answers 200 with the empty list and leaves every table and the
\* index in place.
OnlyMissingTables(q) == \A i \in DOMAIN q.trace : i >= 2 => q.trace[i][2] = "ok"
ListOnFreshStore ==
    /\ last.pc = "done"
    /\ last.op \in {"listChains"} \cup ListOps
    /\ last.pre.schema = {}
    /\ OnlyMissingTables(last)
C7_ListOnFreshStore == ListOnFreshStore => (last.resp = json(<<>>) /\ schema = AllObjects)
C7_Witness == ListOnFreshStore /\ last.op = "listChains"

\* C8: in every reachable state, overlapping requests included, every stored
\* version belongs to a chain that exists.
C8_NoOrphanVersion == \A v \in versions : \E c \in chains : c.id = v.chain_id
\* A createVersion read the maximum of a chain that existed when it began, the
\* chain was deleted, and the insert was refused.
C8_Witness ==
    /\ last.op = "createVersion" /\ last.pc = "done"
    /\ last.args.id \in last.pre.chains
    /\ last.trace = << <<"primary", "ok">>, <<"insert", FKFailed>> >>

\* C9: an authorised updateChainMeta whose body has none of name,
\* description, previewImage never waits on the store: it answers
\* {success: true} on entry, having executed no statement and changed nothing.
NoFields(u) == u = [name |-> Undefined, description |-> Undefined, previewImage |-> Undefined]
C9_NoFieldsNoOp ==
    /\ [](\A r \in Slots : reqs[r].op = "updateChainMeta" => ~NoFields(reqs[r].args.updates))
    /\ [][(/\ started' = started + 1 /\ reqs' = reqs
            /\ last'.op = "updateChainMeta" /\ last'.args.key = "master")
           => (/\ NoFields(last'.args.updates)
               /\ last'.resp = json([success |-> TRUE])
               /\ last'.trace = <<>>
               /\ store' = store)]_vars
C9_Witness ==
    /\ Answered("updateChainMeta")
    /\ NoFields(last.args.updates)
    /\ \E c \in chains : c.id = last.args.id /\ c.updated_at < clock

\* C10: a successful updateChainMeta with at least one field sets exactly the
\* supplied columns of chain id and its updated_at, and leaves its id, tags,
\* created_at and unsupplied columns, every other chain, and every other
\* table as they were.
UpdateAnswers(r) ==
    /\ At(r, "updateChainMeta", "primary")
    /\ reqs'[r].pc = "idle"
    /\ last'.resp.status = 200
UpdateFrame(q, d, c) ==
    LET u == q.args.updates IN
    /\ d.id = c.id /\ d.tags = c.tags /\ d.created_at = c.created_at
    /\ d.name = IF u.name # Undefined THEN u.name ELSE c.name
    /\ d.description = IF u.description # Undefined THEN u.description ELSE c.description
    /\ d.preview_image = IF u.previewImage # Undefined THEN u.previewImage ELSE c.preview_image
UpdateEffect(q, strictly) ==
    /\ <<schema, versions, artists, inspirations>>' = <<schema, versions, artists, inspirations>>
    /\ {c \in chains' : c.id # q.args.id} = {c \in chains : c.id # q.args.id}
    /\ \A c \in chains : c.id = q.args.id =>
          \E d \in chains' :
             /\ UpdateFrame(q, d, c)
             /\ d.updated_at = q.now
             /\ IF strictly THEN d.updated_at > c.updated_at ELSE d.updated_at >= c.updated_at
    /\ Cardinality(chains') = Cardinality(chains)
\* C10 (as stated): ... and updated_at becomes later than it was.
C10_UpdatedAtLater ==
    [][\A r \in Slots : UpdateAnswers(r) => UpdateEffect(reqs[r], TRUE)]_vars
\* C10 (amended): ... and updated_at becomes the time the request read, which,
\* with requests run one after another, is never earlier than it was (and is
\* later exactly when the clock has advanced since).
C10_UpdatedAtNotEarlier ==
    [][\A r \in Slots : UpdateAnswers(r) => UpdateEffect(reqs[r], FALSE)]_vars
\* A name was set on one of two chains, after the clock had advanced.
C10_Witness ==
    /\ Answered("updateChainMeta")
    /\ last.args.updates = [name |-> "X", description |-> Undefined, previewImage |-> Undefined]
    /\ Cardinality(chains) = 2
    /\ \E c \in chains :
          /\ c.id = last.args.id /\ c.name = "X" /\ c.description = "bar"
          /\ c.created_at = 0 /\ c.updated_at = 1

\* C11: a PUT, a DELETE, or a POST on artists or inspirations whose
\* X-Master-Key is not the server's key never gets past the check: it holds no
\* slot (it waits on no statement, provisioning or provider call), it is
\* answered 401 "Unauthorized" on entry with no statement executed, and the
\* step that answers it changes nothing in the store.
WrongKey(q) == q.op \in AdminOps /\ q.args.key # MASTER_KEY
C11_UnauthorizedNoEffect ==
    /\ [](/\ \A r \in Slots : ~WrongKey(reqs[r])
          /\ WrongKey(last) => (last.resp = error("Unauthorized", 401) /\ last.trace = <<>>))
    /\ [][(started' = started + 1 /\ last' # last /\ WrongKey(last')) => store' = store]_vars
\* A POST on artists without the header was refused while the store held chains.
C11_Witness ==
    /\ last.op = "upsertArtist" /\ last.pc = "done"
    /\ last.args.key = NULL
    /\ last.resp.status = 401
    /\ chains # {} /\ artists = {}

\* C12: every execution of INIT_SQL that the store does not fail, whatever
\* the schema and the rows it finds, and whether or not another request is
\* provisioning too, succeeds, ends with the four tables and the index
\* present, and leaves every row of every table as it was.
Provisions(r) == reqs[r].pc = "ensure" /\ reqs'[r] # reqs[r] /\ faults' = faults
AfterEnsure(r) == IF reqs'[r].pc = "idle" THEN last' ELSE reqs'[r]
C12_EnsureSchemaIdempotent ==
    [][\A r \in Slots : Provisions(r) =>
          /\ AfterEnsure(r).trace[Len(AfterEnsure(r).trace)] = <<"ensure", "ok">>
          /\ AfterEnsure(r).pc = "done" => AfterEnsure(r).resp.status = 200
          /\ schema' = AllObjects
          /\ <<chains, versions, artists, inspirations>>' = <<chains, versions, artists, inspirations>>]_vars
\* Two overlapping createChain requests both found the tables missing and both
\* provisioned; the second did so with the first one's rows in the store.
C12_Witness ==
    /\ last.op = "createChain" /\ last.pre.schema = {} /\ EnsureOk(last)
    /\ \E r \in Slots :
          /\ reqs[r].op = "createChain" /\ reqs[r].pre.schema = {}
          /\ reqs[r].trace = << <<"primary", NoSuchTable>>, <<"ensure", "ok">> >>
    /\ chains # {} /\ versions # {}

\* C18: with requests run one after another, a listChains that answers 200
\* lists every stored chain exactly once, with the chain's own columns, by
\* descending updated_at, each with latestVersion the stored version of that
\* chain that has the greatest version number (parsed), or null when the
\* chain has no version.
ListAnswers(r) ==
    /\ At(r, "listChains", "versions")
    /\ reqs'[r].pc = "idle"
    /\ last'.resp.status = 200
IsLatestOf(lv, id) ==
    IF VersionsOf(id) = {} THEN lv = NullRow
    ELSE /\ "version" \in DOMAIN lv
         /\ \A w \in VersionsOf(id) : w.version <= lv.version
         /\ \E v \in VersionsOf(id) :
               /\ v.id = lv.id /\ v.version = lv.version /\ lv.chain_id = id
               /\ lv.base_prompt = v.base_prompt /\ lv.negative_prompt = v.negative_prompt
               /\ lv.modules = v.modules[2] /\ lv.params = v.params[2]
Listed(b) ==
    /\ Len(b) = Cardinality(chains)
    /\ {b[i].id : i \in DOMAIN b} = {c.id : c \in chains}
    /\ \A i, j \in DOMAIN b : i < j => b[i].updated_at >= b[j].updated_at
    /\ \A i \in DOMAIN b :
          /\ \E c \in chains :
                /\ c.id = b[i].id /\ c.name = b[i].name /\ c.description = b[i].description
                /\ c.updated_at = b[i].updated_at /\ c.created_at = b[i].created_at
          /\ IsLatestOf(b[i].latestVersion, b[i].id)
C18_ListChainsLatest == [][\A r \in Slots : ListAnswers(r) => Listed(last'.resp.body)]_vars
\* Two chains were listed, the one a createVersion had just bumped first,
\* with its version 2.
C18_Witness ==
    /\ Answered("listChains") /\ last.pre.prev.op = "createVersion"
    /\ Len(last.resp.body) = 2
    /\ last.resp.body[1].updated_at > last.resp.body[2].updated_at
    /\ last.resp.body[1].latestVersion.version = 2
    /\ last.resp.body[2].latestVersion.version = 1

\* C19: under every interleaving, no step of an updateChainMeta or a
\* createVersion for a chain that was stored when the request began lowers
\* that chain's updated_at or leaves it below the chain's created_at.
StepOf(r) == reqs[r].pc # "idle" /\ reqs'[r] # reqs[r]
C19_UpdatedAtMonotonic ==
    [][\A r \in Slots :
          (/\ StepOf(r)
           /\ reqs[r].op \in {"updateChainMeta", "createVersion"}
           /\ reqs[r].args.id \in reqs[r].pre.chains)
          => \A c \in chains : \A d \in chains' :
                (d.id = c.id /\ d.id = reqs[r].args.id)
                => (d.updated_at >= c.updated_at /\ d.updated_at >= d.created_at)]_vars

\* C20: under every interleaving, a step leaves every stored version exactly
\* as it was, every field, unless the step is the DELETE of a deleteChain on
\* that version's own chain, which removes the row.
DeletesChain(r, id) ==
    /\ At(r, "deleteChain", "primary")
    /\ reqs[r].args.id = id
    /\ reqs'[r].pc = "idle" /\ last'.resp.status = 200
C20_VersionsImmutable ==
    [][\A v \in versions :
          \/ v \in versions'
          \/ /\ \E r \in Slots : DeletesChain(r, v.chain_id)
             /\ \A w \in versions' : w.id # v.id]_vars
\* After a createVersion, a stored chain was deleted: its versions are gone
\* and the one version of the other chain stayed.
C20_Witness ==
    /\ Answered("deleteChain")
    /\ last.args.id \in last.pre.chains
    /\ last.pre.prev.op = "createVersion" /\ last.pre.prev.status = 200
    /\ VersionsOf(last.args.id) = {}
    /\ Cardinality(versions) = 1 /\ Cardinality(chains) = 1

\* ------------------------------------------------------- generateImage
Compiled == gen.pc # "idle" /\ CanParse(gen.body)
SentSeed == IF "seed" \in DOMAIN gen.payload.parameters THEN gen.payload.parameters.seed ELSE Undef
MetaFiles == SelectSeq(gen.zip, EndsWithJson)
\* The metadata's seed when the archive has a .json entry that parses to an
\* object with a numeric seed, else undefined.
NumericMetaSeed ==
    IF MetaFiles # <<>> /\ MetaFiles[1].text[1] = "json"
    THEN LET j == MetaFiles[1].text[2] IN
         IF j[1] = "object" /\ "seed" \in DOMAIN j[2] /\ j[2].seed[1] = "number"
         THEN j[2].seed ELSE Undef
    ELSE Undef

\* C13: the decoded seed is the metadata's numeric seed whenever the archive
\* has one (0 included), whatever was sent; otherwise it is the seed sent, or
\* 0 when none was sent; and a decode fails only on an archive without files.
C13_SeedPrecedence ==
    /\ gen.pc = "done" =>
          gen.result.seed = IF NumericMetaSeed # Undef THEN NumericMetaSeed
                            ELSE IF SentSeed # Undef THEN SentSeed ELSE Num(0)
    /\ (gen.pc = "failed" /\ gen.thrown = Error("No image found in response")) => gen.zip = <<>>

\* C14: the payload has no seed key when params.seed is absent or -1, and
\* has seed = params.seed for every other number, 0 included.
C14_SeedPolicy ==
    Compiled =>
        LET s == gen.params.seed IN
        /\ s \in {Undef, Num(-1)} => "seed" \notin DOMAIN gen.payload.parameters
        /\ (s \notin {Undef, JsNull, Num(-1)}) =>
              ("seed" \in DOMAIN gen.payload.parameters /\ gen.payload.parameters.seed = s)
\* Seed 0 was compiled into the payload.
C14_Witness ==
    /\ gen.pc = "posted" /\ gen.params.seed = Num(0)
    /\ SentSeed = Num(0)

\* C15: for n >= 1 characters the positive and the negative captions both
\* have n entries, in the characters' order; entry i of both carries the one
\* position (x, y) of character i, the positive text is its prompt and the
\* negative text its negativePrompt or ""; with no characters both are empty.
C15_MirroredCaptions ==
    Compiled =>
        LET pos == gen.payload.parameters.v4_prompt.caption.char_captions
            neg == gen.payload.parameters.v4_negative_prompt.caption.char_captions
            cs == IF gen.params.characters = Undef THEN <<>> ELSE gen.params.characters[2] IN
        /\ Len(pos) = Len(cs) /\ Len(neg) = Len(cs)
        /\ \A i \in DOMAIN cs :
              /\ pos[i].centers = << [x |-> cs[i].x, y |-> cs[i].y] >>
              /\ neg[i].centers = pos[i].centers
              /\ pos[i].char_caption = cs[i].prompt
              /\ neg[i].char_caption =
                    IF cs[i].negativePrompt = Undef THEN "" ELSE cs[i].negativePrompt[2]
\* Two different characters, the first without a negative prompt.
C15_Witness ==
    /\ Compiled /\ gen.params.characters # Undef
    /\ Len(gen.params.characters[2]) = 2
    /\ gen.params.characters[2][1].negativePrompt = Undef
    /\ gen.params.characters[2][2].prompt = "boy"
    /\ Len(gen.payload.parameters.v4_negative_prompt.caption.char_captions) = 2

\* C16: use_coords is params.useCoords when that is true or false; otherwise
\* it is the boolean true when characters is a non-empty sequence and the
\* boolean false when characters is absent or empty.
C16_UseCoordsBoolean ==
    Compiled =>
        LET flag == gen.payload.parameters.v4_prompt.use_coords
            cs == gen.params.characters IN
        IF gen.params.useCoords \in {Bool(TRUE), Bool(FALSE)}
        THEN flag = gen.params.useCoords
        ELSE flag = Bool(cs # Undef /\ Len(cs[2]) > 0)

\* C17: with qualityToggle false, input and base_caption are the prompt as
\* given; with it true or omitted, both are the prompt followed by the
\* quality tags, once.
C17_QualitySuffix ==
    Compiled =>
        LET flat == gen.payload.input
            base == gen.payload.parameters.v4_prompt.caption.base_caption
            t == gen.params.qualityToggle IN
        /\ t = Bool(FALSE) => (flat = gen.prompt /\ base = gen.prompt)
        /\ t \in {Undef, Bool(TRUE)} =>
              /\ flat = gen.prompt \o NAI_QUALITY_TAGS /\ base = flat
              /\ Len(flat) = Len(gen.prompt) + Len(NAI_QUALITY_TAGS)
\* The toggle omitted on a prompt that already ends with the tags, and the
\* toggle off on the same prompt.
C17_Witness ==
    /\ Compiled /\ gen.params.qualityToggle = Undef
    /\ gen.prompt = <<"1girl">> \o NAI_QUALITY_TAGS
    /\ gen.payload.input = <<"1girl">> \o NAI_QUALITY_TAGS \o NAI_QUALITY_TAGS

\* C21 (as stated): a generate request calls the provider exactly once and
\* changes nothing in the store; when the provider answers with a status that
\* is not ok, the caller gets an error with that status and the provider's
\* text as it is.
WorkerAnswered == gen.pc \in {"received", "failed", "done"}
ProviderFailed == gen.provider.status \notin {0, 200}
GenerateLeavesStore == [][gen' # gen => store' = store]_vars
C21_ProviderErrorUntransformed ==
    /\ [](WorkerAnswered =>
            /\ gen.calls = 1
            /\ ProviderFailed => gen.resp = error(gen.provider.text, gen.provider.status))
    /\ GenerateLeavesStore
\* C21 (amended): a generate request whose body is JSON calls the provider
\* exactly once (one without, never) and changes nothing in the store; when
\* the provider answers with a status that is not ok, the caller gets an error
\* with that status whose message is "NAI API Error: " followed by the
\* provider's text.
C21_ProviderErrorPrefixed ==
    /\ [](WorkerAnswered =>
            /\ gen.calls = IF CanParse(gen.body) THEN 1 ELSE 0
            /\ ProviderFailed =>
                  /\ gen.resp.status = gen.provider.status
                  /\ gen.resp.body = [error |-> <<"NAI API Error: ">> \o gen.provider.text])
    /\ GenerateLeavesStore
\* The provider answered 400 and the caller got a 400, over a store with chains.
C21_Witness ==
    /\ gen.pc = "failed" /\ gen.calls = 1
    /\ gen.provider.status = 400 /\ gen.resp.status = 400
    /\ chains # {}

====
